---- MODULE Spec2Model ----
(***************************************************************************)
(* A model of the grep package of kevin-cantwell/usrbin: option            *)
(* construction (New and the With... options), pattern compilation         *)
(* (matchers / allMatcher), the word/line boundary filter (Match / match), *)
(* and the line-streaming engine (Exec / Read) that runs as a producer     *)
(* goroutine writing to an io.Pipe read by a consumer.                     *)
(*                                                                         *)
(* Bytes are one-character strings; byte slices and Go strings are         *)
(* sequences of them.  Offsets are 0-based as in the source; sequences     *)
(* are 1-based, so line[k] of the source is line[k+1] here.                *)
(***************************************************************************)
EXTENDS Integers, Sequences, FiniteSets, TLC

\* Bounds of the model.
MaxLines == 2      \* input lines per input stream
MaxOpts == 2       \* options handed to New
MaxStages == 2     \* commands handed to Pipe

NL == "\n"
CR == "\r"

(***************************************************************************)
(* Byte-slice helpers (package strings / bytes).                           *)
(***************************************************************************)
Min(a, b) == IF a < b THEN a ELSE b

\* s[from:] with a 0-based offset.
Drop(s, from) == SubSeq(s, from + 1, Len(s))

\* s[:to] with a 0-based offset.
Take(s, to) == SubSeq(s, 1, to)

\* bytes.IndexByte: 0-based offset of the first c in s, or -1.
IndexByte(s, c) ==
  IF \E k \in 1..Len(s) : s[k] = c
  THEN (CHOOSE k \in 1..Len(s) : s[k] = c /\ \A j \in 1..(k - 1) : s[j] # c) - 1
  ELSE -1

\* strings.Split(s, sep) for a one-byte separator: empty pieces are kept, and
\* the split of the empty string is one empty piece.
RECURSIVE Split(_, _)
Split(s, sep) ==
  LET i == IndexByte(s, sep)
  IN  IF i < 0 THEN <<s>> ELSE <<Take(s, i)>> \o Split(Drop(s, i + 1), sep)

\* strings.Join(pieces, sep).
RECURSIVE Join(_, _)
Join(pieces, sep) ==
  IF Len(pieces) = 0 THEN <<>>
  ELSE IF Len(pieces) = 1 THEN pieces[1]
  ELSE pieces[1] \o <<sep>> \o Join(Tail(pieces), sep)

\* The concatenation of a sequence of byte slices.
RECURSIVE Concat(_)
Concat(ss) == IF Len(ss) = 0 THEN <<>> ELSE ss[1] \o Concat(Tail(ss))

\* unicode.SimpleFold restricted to the model's alphabet.
Fold(c) == IF c = "A" THEN "a" ELSE c

\* bytes.Equal.
Equal(s, t) == s = t

\* bytes.EqualFold.
EqualFold(s, t) ==
  /\ Len(s) = Len(t)
  /\ \A k \in 1..Len(s) : Fold(s[k]) = Fold(t[k])

\* syntax.IsWordChar: letters, digits and underscore.
IsWordChar(c) == c \in {"a", "A", "b", "B", "0", "1", "_"}

(***************************************************************************)
(* bufio.Scanner with the default split function bufio.ScanLines.          *)
(***************************************************************************)
\* dropCR: one trailing carriage return is removed from a token.
dropCR(data) ==
  IF Len(data) > 0 /\ data[Len(data)] = CR THEN Take(data, Len(data) - 1) ELSE data

\* bufio.ScanLines(data, atEOF): has = a token is returned (token # nil).
ScanLines(data, atEOF) ==
  LET i == IndexByte(data, NL)
  IN  IF atEOF /\ Len(data) = 0 THEN [adv |-> 0, has |-> FALSE, tok |-> <<>>]
      ELSE IF i >= 0 THEN [adv |-> i + 1, has |-> TRUE, tok |-> dropCR(Take(data, i))]
      ELSE IF atEOF THEN [adv |-> Len(data), has |-> TRUE, tok |-> dropCR(data)]
      ELSE [adv |-> 0, has |-> FALSE, tok |-> <<>>]

\* bufio.MaxScanTokenSize: the size to which the buffer of a Scanner made by
\* bufio.NewScanner may grow.
MaxScanTokenSize == 65536

\* All the tokens a Scanner yields for a stream whose whole content is data.
RECURSIVE ScanAll(_)
ScanAll(data) ==
  LET r == ScanLines(data, TRUE)
  IN  IF r.has THEN <<r.tok>> \o ScanAll(Drop(data, r.adv)) ELSE <<>>

(***************************************************************************)
(* regexp/syntax and regexp, for the dialect the model uses: an            *)
(* alternation of literals, a1|a2|...|an (a literal may be empty), matched *)
(* leftmost-first as package regexp does; "(" without its ")" is the       *)
(* syntax error.  A compiled expression is its list of alternatives and    *)
(* whether it folds case.                                                   *)
(***************************************************************************)
\* syntax.Parse(expr, flags): foldCase is flags&syntax.FoldCase != 0.
Parse(expr, foldCase) ==
  IF IndexByte(expr, "(") >= 0
  THEN [err |-> <<"missing closing )", expr>>, alts |-> <<>>, fold |-> FALSE]
  ELSE [err |-> <<>>, alts |-> Split(expr, "|"), fold |-> foldCase]

\* (*syntax.Regexp).String(): the expression printed back, under (?i:...)
\* when it folds case.
String(parsed) == [flag |-> IF parsed.fold THEN "i" ELSE "", body |-> Join(parsed.alts, "|")]

\* regexp.Compile of a printed expression.
Compile(str) == [alts |-> Split(str.body, "|"), fold |-> str.flag = "i"]

\* Whether alternative alt matches line at offset pos.
MatchesAt(re, alt, line, pos) ==
  /\ pos + Len(alt) <= Len(line)
  /\ \A k \in 1..Len(alt) :
        IF re.fold THEN Fold(line[pos + k]) = Fold(alt[k]) ELSE line[pos + k] = alt[k]

\* (*Regexp).doExecute from offset pos: the leftmost match, and at that
\* offset the first alternative that matches; <<>> when there is none.
doExecute(re, line, pos) ==
  LET starts == {s \in pos..Len(line) :
                   \E j \in 1..Len(re.alts) : MatchesAt(re, re.alts[j], line, s)}
  IN  IF starts = {} THEN <<>>
      ELSE LET b == CHOOSE s \in starts : \A t \in starts : s <= t
               j == CHOOSE j \in 1..Len(re.alts) :
                      /\ MatchesAt(re, re.alts[j], line, b)
                      /\ \A i \in 1..(j - 1) : ~MatchesAt(re, re.alts[i], line, b)
           IN  <<b, b + Len(re.alts[j])>>

\* (*Regexp).Match.
reMatch(re, line) == doExecute(re, line, 0) # <<>>

\* (*Regexp).Find: the text of the leftmost match.
Find(re, line) ==
  LET m == doExecute(re, line, 0) IN SubSeq(line, m[1] + 1, m[2])

\* (*Regexp).allMatches: successive non-overlapping matches; an empty match
\* right after the previous match is dropped.
RECURSIVE allMatches(_, _, _, _)
allMatches(re, line, pos, prevMatchEnd) ==
  IF pos > Len(line) THEN <<>>
  ELSE LET m == doExecute(re, line, pos)
       IN  IF m = <<>> THEN <<>>
           ELSE LET accept == ~(m[2] = pos /\ m[1] = prevMatchEnd)
                    next == IF m[2] = pos THEN pos + 1 ELSE m[2]
                IN  (IF accept THEN <<m>> ELSE <<>>) \o allMatches(re, line, next, m[2])

\* (*Regexp).FindAllIndex(line, -1).
FindAllIndex(re, line) == allMatches(re, line, 0, -1)

(***************************************************************************)
(* The inputs the model draws from.                                        *)
(***************************************************************************)
\* The inline pattern strings handed to New.
PatternPool ==
  { <<>>,                       \* the empty string
    <<"a">>,
    <<"a", "|", "a", "a">>,     \* a|aa
    <<" ", NL, "a">>,           \* two patterns, " " and "a"
    <<"(">> }                   \* does not compile

\* The pattern strings handed to WithRegexps.
RegexpPool ==
  { <<"a">>,
    <<" ", NL, "a", "a">>,      \* two patterns, " " and "aa"
    <<"(">> }                   \* does not compile

\* The pattern strings handed to WithRegexps by the requests that exercise
\* the word-regexp filter.
WordRegexpPool ==
  { <<"a">>,
    <<" ", "|", "a", " ">> }    \* " |a ": a space, or "a" and a space

\* The pattern strings handed to WithRegexps by the requests that exercise
\* the splitting of a pattern string on newlines.
SplitRegexpPool ==
  { <<"a", NL>>,                \* ends with a newline: "a" and the empty one
    <<"a", NL, NL, "A">> }      \* two consecutive newlines: "a", "", "A"

\* The content of the pattern files the caller has opened, by file handle.
FileData ==
  << <<>>,                      \* an empty file
     <<"A", NL>>,               \* one pattern, A
     <<"a", NL, "(", NL>> >>    \* a second line that does not compile

Files == 1..Len(FileData)

\* The lines of an input stream that end with a newline; the last one
\* ends with a carriage return and a newline.
LinePool ==
  { <<>>, <<"A">>, <<"a", "a">>, <<" ", "a", " ">>, <<"a", CR>> }

\* The last lines of an input stream that end without a newline.
TailPool == { <<"a">> }

\* The sizes of the buffers the consumer hands to Read.
ReadSizes == {2, 512}

\* Error values: nil is the empty tuple.
nil == <<>>
EOF == <<"EOF">>

\* The errors of the input stream other than io.EOF.
InputErrors == {<<"EIO">>}

\* bufio.ErrTooLong.
ErrTooLong == <<"bufio.Scanner: token too long">>

\* The first MaxScanTokenSize bytes of an input line that has at least that
\* many bytes before its newline.
LongLine == SubSeq([k \in 1..MaxScanTokenSize |-> "a"], 1, MaxScanTokenSize)

\* Handles: the input stream of the request and the pattern files.
InputHandle == <<"input">>
FileHandle(file) == <<"file", file>>

(***************************************************************************)
(* State.                                                                  *)
(***************************************************************************)
VARIABLES
  impl,      \* "Exec": Grep of part_000; "Read": Grep of part_008
  pattern,   \* Grep.pattern
  opts,      \* Grep.opts: [e, f, i, v, w, x]
  applied,   \* history: the options New has applied so far
  fileOff,   \* read offset of each pattern file handle
  ms,        \* the compiled matchers ([]*matcher / matchAll.each)
  pc,        \* "new", "scan", "write", "done", "failed", "panic"
  inData,    \* history: the bytes the input stream has delivered so far
  inEnd,     \* nil, or the terminal condition the input stream returned
  sbuf,      \* bufio.Scanner: bytes read and not yet consumed as tokens
  sErr,      \* bufio.Scanner: nil, or the error of the last read (io.EOF included)
  line,      \* s.Bytes(): the token of the last successful Scan
  wdata,     \* io.Pipe: bytes of the Write in progress not yet read
  werr,      \* io.Pipe: nil, or the error the reader sees once the write side is closed
  cstate,    \* consumer: "reading", "ended", "abandoned"
  got,       \* history: the bytes the consumer has read
  cerr,      \* history: the terminal conditions the consumer's Read returned
  closed,    \* the handles (input, pattern files) on which Close has been called
  run,       \* 1, or 2 when the same Grep value runs a second time
  prev,      \* history: input and output of the first run, once it is over
  cmds,      \* Pipe: the Grep values handed to Pipe, [pattern, opts] each
  srcData,   \* Pipe: history: the bytes the input of Pipe has delivered so far
  srcEnd,    \* Pipe: nil, or the terminal condition the input of Pipe returned
  stage,     \* Pipe: the stages started so far: [pc, ms, sbuf, sErr, wdata, werr] each
  ppc,       \* Pipe's goroutine: "loop" (the loop, then io.Copy's Read), "write", "done"
  pout,      \* Pipe's io.Pipe: [wdata, werr]
  sink       \* the consumer of Pipe's output: [state, got, cerr]

vars == <<impl, pattern, opts, applied, fileOff, ms, pc, inData, inEnd,
          sbuf, sErr, line, wdata, werr, cstate, got, cerr, closed,
          run, prev, cmds, srcData, srcEnd, stage, ppc, pout, sink>>

grepVars == <<impl, pattern, opts, applied>>
scanVars == <<inData, inEnd, sbuf, sErr, line>>
pipeVars == <<wdata, werr>>
consVars == <<cstate, got, cerr>>
resVars == <<closed>>
runVars == <<run, prev>>
plVars == <<cmds, srcData, srcEnd, stage, ppc, pout, sink>>

(***************************************************************************)
(* Options.                                                                *)
(***************************************************************************)
\* options{}: the zero value.
ZeroOptions == [e |-> <<>>, f |-> <<>>, i |-> FALSE, v |-> FALSE, w |-> FALSE, x |-> FALSE]

WithRegexps(o, p) == [o EXCEPT !.e = Append(@, p)]

WithFiles(o, file) == [o EXCEPT !.f = Append(@, file)]

WithIgnoreCase(o) == [o EXCEPT !.i = TRUE]

WithInvertMatch(o) == [o EXCEPT !.v = TRUE]

\* Mutant: WithWordRegexp without its `if opts.x { return }`.
WithWordRegexp_NoGuard(o) == [o EXCEPT !.w = TRUE]

WithWordRegexp(o) == IF o.x THEN o ELSE [o EXCEPT !.w = TRUE]

WithLineRegexp(o) == [o EXCEPT !.x = TRUE, !.w = FALSE]

(***************************************************************************)
(* The word/line boundary filter.  The outcome of a match is "true",       *)
(* "false" or "panic" (an index out of range).                             *)
(***************************************************************************)
\* Mutant: the switch without its first case
\* (`case begin == 0 && end == len(line)`).
wordCase_NoWholeLine(ln, begin, end) ==
  LET InRange(k) == 0 <= k /\ k < Len(ln)
      case3 == IF end # Len(ln) THEN "next"
               ELSE IF ~InRange(begin - 1) THEN "panic"
               ELSE IF ~IsWordChar(ln[begin]) THEN "true" ELSE "next"
  IN  IF begin # 0 THEN case3
      ELSE IF ~InRange(end) THEN "panic"
      ELSE IF ~IsWordChar(ln[end + 1]) THEN "true" ELSE case3

\* The switch over one match span [begin, end) of the word-regexp loop:
\* "true" when a case returns true, "next" when no case applies.
wordCase(ln, begin, end) ==
  LET InRange(k) == 0 <= k /\ k < Len(ln)
      case3 == IF end # Len(ln) THEN "next"
               ELSE IF ~InRange(begin - 1) THEN "panic"
               ELSE IF ~IsWordChar(ln[begin]) THEN "true" ELSE "next"
      case2 == IF begin # 0 THEN case3
               ELSE IF ~InRange(end) THEN "panic"
               ELSE IF ~IsWordChar(ln[end + 1]) THEN "true" ELSE case3
  IN  IF begin = 0 /\ end = Len(ln) THEN "true" ELSE case2

\* Mutant: the loop examines the first match span only
\* (FindIndex in place of FindAllIndex).
wordLoop_FirstOnly(ln, indexes, k) ==
  IF k > Len(indexes) THEN "false"
  ELSE LET r == wordCase(ln, indexes[k][1], indexes[k][2])
       IN  IF r = "next" THEN "false" ELSE r

\* for _, i := range indexes { switch ... }; return false
RECURSIVE wordLoop(_, _, _)
wordLoop(ln, indexes, k) ==
  IF k > Len(indexes) THEN "false"
  ELSE LET r == wordCase(ln, indexes[k][1], indexes[k][2])
       IN  IF r = "next" THEN wordLoop(ln, indexes, k + 1) ELSE r

\* (m *matcher) match of part_008, and the closure `matches` of
\* (m *matcher) Match of part_000: the filter before inversion.
match(m, o, ln) ==
  IF ~reMatch(m.regexp, ln) THEN "false"
  ELSE IF o.x
       THEN LET found == Find(m.regexp, ln)
            IN  IF o.i
                THEN (IF EqualFold(found, ln) THEN "true" ELSE "false")
                ELSE (IF Equal(found, ln) THEN "true" ELSE "false")
  ELSE IF o.w THEN wordLoop(ln, FindAllIndex(m.regexp, ln), 1)
  ELSE "true"

\* matches != m.opts.v
Xor(r, v) ==
  IF r = "panic" THEN "panic"
  ELSE IF (r = "true") # v THEN "true" ELSE "false"

\* (m *matcher) Match of part_000: each matcher inverts its own result.
Match(m, o, ln) == Xor(match(m, o, ln), o.v)

\* Mutant: the matcher loop gives up after its first matcher.
ExecSelect_FirstOnly(matchers_, o, ln, k) ==
  IF k > Len(matchers_) THEN "false" ELSE Match(matchers_[k], o, ln)

\* The matcher loop of Exec (part_000): the line is written when some
\* matcher's Match returns true, and the loop breaks there.
RECURSIVE ExecSelect(_, _, _, _)
ExecSelect(matchers_, o, ln, k) ==
  IF k > Len(matchers_) THEN "false"
  ELSE LET r == Match(matchers_[k], o, ln)
       IN  IF r = "false" THEN ExecSelect(matchers_, o, ln, k + 1) ELSE r

\* The loop of (ms matchAll) Match of part_008, before inversion.
RECURSIVE matchAny(_, _, _, _)
matchAny(each, o, ln, k) ==
  IF k > Len(each) THEN "false"
  ELSE LET r == match(each[k], o, ln)
       IN  IF r = "false" THEN matchAny(each, o, ln, k + 1) ELSE r

\* (ms matchAll) Match of part_008: the OR of the matchers, then inverted.
matchAllMatch(each, o, ln) == Xor(matchAny(each, o, ln, 1), o.v)

\* Whether the producer writes the line.
Selected(im, matchers_, o, ln) ==
  IF im = "Exec" THEN ExecSelect(matchers_, o, ln, 1) ELSE matchAllMatch(matchers_, o, ln)

(***************************************************************************)
(* Pattern compilation.  A result is [err, ms, off]: the error (<<>> for   *)
(* nil), the matchers appended so far, the offsets of the pattern files.   *)
(***************************************************************************)
\* appendRegex of matchers (part_000): the expression is always parsed
\* with syntax.Perl|syntax.FoldCase.
appendRegex(o, expr) ==
  LET parsed == Parse(expr, TRUE)
  IN  IF parsed.err # <<>> THEN [err |-> parsed.err, m |-> <<>>]
      ELSE [err |-> <<>>, m |-> <<[regexp |-> Compile(String(parsed))]>>]

\* addExpr of allMatcher (part_008): FoldCase only with ignore-case.
addExpr(o, expr) ==
  LET parsed == Parse(expr, o.i)
  IN  IF parsed.err # <<>> THEN [err |-> parsed.err, m |-> <<>>]
      ELSE [err |-> <<>>, m |-> <<[regexp |-> Compile(String(parsed))]>>]

addOne(im, o, expr) == IF im = "Exec" THEN appendRegex(o, expr) ELSE addExpr(o, expr)

\* Compiles exprs in order onto res, stopping at the first error.
RECURSIVE addAll(_, _, _, _)
addAll(im, o, exprs, res) ==
  IF res.err # <<>> \/ Len(exprs) = 0 THEN res
  ELSE LET r == addOne(im, o, exprs[1])
       IN  addAll(im, o, Tail(exprs),
                  [res EXCEPT !.err = r.err, !.ms = @ \o r.m])

\* for _, pattern := range cmd.opts.e { for _, expr := range strings.Split(pattern, "\n") ...
RECURSIVE addRegexps(_, _, _, _)
addRegexps(im, o, es, res) ==
  IF res.err # <<>> \/ Len(es) = 0 THEN res
  ELSE addRegexps(im, o, Tail(es), addAll(im, o, Split(es[1], NL), res))

\* Mutant: the file's content is split on newlines instead of scanned, so
\* that an empty file yields one empty pattern.
RECURSIVE addFiles_Split(_, _, _, _)
addFiles_Split(im, o, fs, res) ==
  IF res.err # <<>> \/ Len(fs) = 0 THEN res
  ELSE LET file == fs[1]
           rest == Drop(FileData[file], res.off[file])
           read == [res EXCEPT !.off[file] = Len(FileData[file])]
       IN  addFiles_Split(im, o, Tail(fs), addAll(im, o, Split(rest, NL), read))

\* for _, file := range cmd.opts.f { s := bufio.NewScanner(file); for s.Scan() ...
\* The scanner reads the file from its current offset to its end.
RECURSIVE addFiles(_, _, _, _)
addFiles(im, o, fs, res) ==
  IF res.err # <<>> \/ Len(fs) = 0 THEN res
  ELSE LET file == fs[1]
           rest == Drop(FileData[file], res.off[file])
           read == [res EXCEPT !.off[file] = Len(FileData[file])]
       IN  addFiles(im, o, Tail(fs), addAll(im, o, ScanAll(rest), read))

\* Mutant: the inline pattern is dropped only when explicit pattern strings
\* are given (`if len(cmd.opts.e) == 0`).
compileAll_InlineWithFiles(im, pat, o, off) ==
  LET res0 == [err |-> <<>>, ms |-> <<>>, off |-> off]
      res1 == IF Len(o.e) = 0
              THEN addAll(im, o, Split(pat, NL), res0)
              ELSE res0
      res2 == addRegexps(im, o, o.e, res1)
  IN  addFiles(im, o, o.f, res2)

\* (cmd *Grep) matchers of part_000 and (cmd *Grep) allMatcher of part_008.
compileAll(im, pat, o, off) ==
  LET res0 == [err |-> <<>>, ms |-> <<>>, off |-> off]
      res1 == IF Len(o.e) = 0 /\ Len(o.f) = 0
              THEN addAll(im, o, Split(pat, NL), res0)
              ELSE res0
      res2 == addRegexps(im, o, o.e, res1)
  IN  addFiles(im, o, o.f, res2)

matchers(pat, o, off) == compileAll("Exec", pat, o, off)

allMatcher(pat, o, off) == compileAll("Read", pat, o, off)

(***************************************************************************)
(* New: the options are applied one by one to the zero options.            *)
(***************************************************************************)
\* Pipe has not been called: no stage, nothing read, nothing written.
PipeNotStarted ==
  /\ srcData = <<>>
  /\ srcEnd = nil
  /\ stage = <<>>
  /\ ppc = "loop"
  /\ pout = [wdata |-> <<>>, werr |-> nil]
  /\ sink = [state |-> "reading", got |-> <<>>, cerr |-> <<>>]

\* New(pattern, opts...) of part_000 takes the inline pattern; New(opts...)
\* of part_008 leaves Grep.pattern empty.
Init ==
  /\ impl \in {"Exec", "Read"}
  /\ pattern \in (IF impl = "Exec" THEN PatternPool ELSE {<<>>})
  /\ opts = ZeroOptions
  /\ applied = {}
  /\ fileOff = [file \in Files |-> 0]
  /\ ms = <<>>
  /\ pc = "new"
  /\ inData = <<>>
  /\ inEnd = nil
  /\ sbuf = <<>>
  /\ sErr = nil
  /\ line = <<>>
  /\ wdata = <<>>
  /\ werr = nil
  /\ cstate = "reading"
  /\ got = <<>>
  /\ cerr = <<>>
  /\ closed = {}
  /\ run = 1
  /\ prev = [inData |-> <<>>, inEnd |-> nil, got |-> <<>>, cerr |-> <<>>]
  /\ cmds = <<>>
  /\ PipeNotStarted

\* The number of options applied so far.
NumApplied == Len(opts.e) + Len(opts.f) + Cardinality(applied \ {"e", "f"})

\* One iteration of `for _, opt := range opts { opt(options) }`.
Apply(kind, o) ==
  /\ pc = "new"
  /\ NumApplied < MaxOpts
  /\ opts' = o
  /\ applied' = applied \cup {kind}
  /\ UNCHANGED <<resVars, runVars, plVars, impl, pattern, fileOff, ms, pc, scanVars, pipeVars, consVars>>

NewWithRegexps == \E p \in RegexpPool : Apply("e", WithRegexps(opts, p))

NewWithWordRegexps == \E p \in WordRegexpPool : Apply("e", WithRegexps(opts, p))

NewWithSplitRegexps == \E p \in SplitRegexpPool : Apply("e", WithRegexps(opts, p))

NewWithFiles == \E file \in Files : Apply("f", WithFiles(opts, file))

NewWithIgnoreCase == Apply("i", WithIgnoreCase(opts))

NewWithInvertMatch == Apply("v", WithInvertMatch(opts))

NewWithWordRegexp == Apply("w", WithWordRegexp(opts))

NewWithLineRegexp == Apply("x", WithLineRegexp(opts))

(***************************************************************************)
(* Exec / Read: the pipe is made, the patterns are compiled, and either    *)
(* the pipe is closed with the compile error or the producer goroutine is  *)
(* started.                                                                 *)
(***************************************************************************)
\* (*PipeWriter).CloseWithError(err): what the reader sees from then on;
\* a nil err reads as io.EOF.
CloseWithError(err) == IF err = nil THEN EOF ELSE err

\* Mutant: Exec without the `return r` after w.CloseWithError(err): the
\* producer goroutine starts although compilation failed.
Start_NoReturn(res) ==
  /\ pc = "new"
  /\ fileOff' = res.off
  /\ werr' = (IF res.err # nil THEN CloseWithError(res.err) ELSE werr)
  /\ ms' = (IF res.err # nil THEN <<>> ELSE res.ms)
  /\ pc' = "scan"
  /\ UNCHANGED <<resVars, runVars, plVars, grepVars, scanVars, wdata, consVars>>

Start(res) ==
  /\ pc = "new"
  /\ fileOff' = res.off
  /\ IF res.err # nil
     THEN /\ werr' = CloseWithError(res.err)
          /\ ms' = <<>>
          /\ pc' = "failed"
     ELSE /\ werr' = werr
          /\ ms' = res.ms
          /\ pc' = "scan"
  /\ UNCHANGED <<resVars, runVars, plVars, grepVars, scanVars, wdata, consVars>>

\* (cmd *Grep) Exec of part_000.
Exec == impl = "Exec" /\ Start(matchers(pattern, opts, fileOff))

\* (cmd *Grep) Read of part_008.
Read == impl = "Read" /\ Start(allMatcher(pattern, opts, fileOff))

(***************************************************************************)
(* The producer goroutine: for s.Scan() { ... }; w.CloseWithError(s.Err()) *)
(***************************************************************************)
\* The number of lines the input stream has delivered, a last line without
\* its newline included.
NumLines(data) == Len(ScanAll(data))

\* A second run is given an input of identical content: the next line of
\* the first run's input.
ReplayChunks ==
  LET rest == Drop(prev.inData, Len(inData))
      i == IndexByte(rest, NL)
  IN  IF rest = <<>> THEN {}
      ELSE IF i < 0 THEN {rest} ELSE {Take(rest, i + 1)}

\* The input stream's answers to one Read: a line with or without its
\* newline; nothing follows a line that has no newline.
Chunks ==
  IF run = 2 THEN ReplayChunks
  ELSE IF NumLines(inData) >= MaxLines \/ (inData # <<>> /\ inData[Len(inData)] # NL)
  THEN {}
  ELSE {l \o <<NL>> : l \in LinePool} \cup TailPool

\* The terminal conditions the input stream may return to a Read; in a
\* second run, the one of the first run once the content is replayed (a
\* clean end if the first run never read its input to the end).
EndConditions ==
  IF run = 2
  THEN (IF inData = prev.inData
        THEN {IF prev.inEnd = nil THEN EOF ELSE prev.inEnd}
        ELSE {})
  ELSE {EOF} \cup InputErrors

\* What Scan can return with the bytes it holds.
Token == ScanLines(sbuf, sErr # nil)

\* s.Scan() has no token in its buffer, which is not full, and reads the
\* input: data arrives.
ScanRead ==
  /\ pc = "scan"
  /\ sErr = nil
  /\ ~Token.has
  /\ Len(sbuf) < MaxScanTokenSize
  /\ \E chunk \in Chunks :
        /\ inData' = inData \o chunk
        /\ sbuf' = sbuf \o chunk
  /\ UNCHANGED <<resVars, runVars, plVars, grepVars, fileOff, ms, pc, inEnd, sErr, line, pipeVars, consVars>>

\* s.Scan() has no token in its buffer and reads the input: the input ends,
\* with io.EOF or with an error.
ScanReadEnd ==
  /\ pc = "scan"
  /\ sErr = nil
  /\ ~Token.has
  /\ Len(sbuf) < MaxScanTokenSize
  /\ \E e \in EndConditions :
        /\ inEnd' = e
        /\ sErr' = e
  /\ UNCHANGED <<resVars, runVars, plVars, grepVars, fileOff, ms, pc, inData, sbuf, line, pipeVars, consVars>>

\* s.Scan() returns true with the next line; the matchers decide whether
\* the line is written: w.Write(append(line, '\n')) then blocks.
ScanLine ==
  /\ pc = "scan"
  /\ Token.has
  /\ line' = Token.tok
  /\ sbuf' = Drop(sbuf, Token.adv)
  /\ LET r == Selected(impl, ms, opts, Token.tok)
     IN  IF r = "true" THEN wdata' = Token.tok \o <<NL>> /\ pc' = "write"
         ELSE IF r = "false" THEN wdata' = wdata /\ pc' = "scan"
         ELSE wdata' = wdata /\ pc' = "panic"
  /\ UNCHANGED <<resVars, runVars, plVars, grepVars, fileOff, ms, inData, inEnd, sErr, werr, consVars>>

\* Mutant: the scanner's error is dropped (w.Close() in place of
\* w.CloseWithError(s.Err())).
Err_Dropped(e) == nil

\* (*Scanner).Err(): io.EOF is not reported.
Err(e) == IF e = EOF THEN nil ELSE e

\* s.Scan() reads the input until its buffer is full: the input is at a line
\* of MaxScanTokenSize bytes or more, of which that many arrive.
ScanReadLong ==
  /\ pc = "scan"
  /\ sErr = nil
  /\ ~Token.has
  /\ sbuf = <<>>
  /\ run = 1
  /\ NumLines(inData) < MaxLines
  /\ (IF inData = <<>> THEN TRUE ELSE inData[Len(inData)] = NL)
  /\ inData' = inData \o LongLine
  /\ sbuf' = LongLine
  /\ UNCHANGED <<resVars, runVars, plVars, grepVars, fileOff, ms, pc, inEnd, sErr, line, pipeVars, consVars>>

\* s.Scan() has no token in its buffer, and the buffer is full and cannot
\* grow: Scan sets ErrTooLong and returns false, and
\* w.CloseWithError(s.Err()) ends the goroutine.
ScanTooLong ==
  /\ pc = "scan"
  /\ sErr = nil
  /\ ~Token.has
  /\ Len(sbuf) >= MaxScanTokenSize
  /\ sErr' = ErrTooLong
  /\ sbuf' = <<>>
  /\ werr' = CloseWithError(Err(ErrTooLong))
  /\ pc' = "done"
  /\ UNCHANGED <<resVars, runVars, plVars, grepVars, fileOff, ms, inData, inEnd, line, wdata, consVars>>

\* s.Scan() returns false; w.CloseWithError(s.Err()) ends the goroutine.
ScanEnd ==
  /\ pc = "scan"
  /\ sErr # nil
  /\ ~Token.has
  /\ sbuf' = <<>>
  /\ werr' = CloseWithError(Err(sErr))
  /\ pc' = "done"
  /\ UNCHANGED <<resVars, runVars, plVars, grepVars, fileOff, ms, inData, inEnd, sErr, line, wdata, consVars>>

\* Mutant: w.Write returns at once, as on a buffered channel.
WriteReturn_Early ==
  /\ pc = "write"
  /\ pc' = "scan"
  /\ UNCHANGED <<resVars, runVars, plVars, grepVars, fileOff, ms, scanVars, pipeVars, consVars>>

\* w.Write returns once the reader has taken every byte; the reader is
\* never closed, so it returns no error.
WriteReturn ==
  /\ pc = "write"
  /\ wdata = <<>>
  /\ pc' = "scan"
  /\ UNCHANGED <<resVars, runVars, plVars, grepVars, fileOff, ms, scanVars, pipeVars, consVars>>

(***************************************************************************)
(* The consumer of the io.Reader that Exec / Read returned.                *)
(***************************************************************************)
\* Read(p) with len(p) = n while a Write is in progress.
ConsumerRead ==
  /\ cstate = "reading"
  /\ wdata # <<>>
  /\ \E n \in ReadSizes :
        /\ got' = got \o Take(wdata, Min(n, Len(wdata)))
        /\ wdata' = Drop(wdata, Min(n, Len(wdata)))
  /\ UNCHANGED <<resVars, runVars, plVars, grepVars, fileOff, ms, pc, scanVars, werr, cstate, cerr>>

\* Read(p) once the write side is closed: the terminal condition.  The
\* caller (main of the command) then returns, and its deferred file.Close()
\* closes the input files; nothing closes a pattern file.
ConsumerEnd ==
  /\ cstate = "reading"
  /\ wdata = <<>>
  /\ werr # nil
  /\ cerr' = Append(cerr, werr)
  /\ cstate' = "ended"
  /\ closed' = closed \cup {InputHandle}
  /\ UNCHANGED <<runVars, plVars, grepVars, fileOff, ms, pc, scanVars, pipeVars, got>>

\* The consumer makes no further Read call.
Abandon ==
  /\ pc # "new"
  /\ cstate = "reading"
  /\ cstate' = "abandoned"
  /\ UNCHANGED <<resVars, runVars, plVars, grepVars, fileOff, ms, pc, scanVars, pipeVars, got, cerr>>

\* The same Grep value is run again once its first run is over and its
\* output has been read to the end: Exec / Read makes a new pipe, compiles
\* the patterns again (the pattern files are the same handles, read from
\* where the first run left them) and starts a new producer on the new input.
ExecAgain ==
  /\ run = 1
  /\ pc \in {"done", "failed"}
  /\ cstate = "ended"
  /\ run' = 2
  /\ prev' = [inData |-> inData, inEnd |-> inEnd, got |-> got, cerr |-> cerr]
  /\ LET res == IF impl = "Exec" THEN matchers(pattern, opts, fileOff)
                ELSE allMatcher(pattern, opts, fileOff)
     IN  /\ fileOff' = res.off
         /\ IF res.err # nil
            THEN werr' = CloseWithError(res.err) /\ ms' = <<>> /\ pc' = "failed"
            ELSE werr' = nil /\ ms' = res.ms /\ pc' = "scan"
  /\ inData' = <<>>
  /\ inEnd' = nil
  /\ sbuf' = <<>>
  /\ sErr' = nil
  /\ line' = <<>>
  /\ wdata' = <<>>
  /\ cstate' = "reading"
  /\ got' = <<>>
  /\ cerr' = <<>>
  /\ UNCHANGED <<grepVars, resVars, plVars>>

Next ==
  \/ NewWithRegexps
  \/ NewWithFiles
  \/ NewWithIgnoreCase
  \/ NewWithInvertMatch
  \/ NewWithWordRegexp
  \/ NewWithLineRegexp
  \/ Exec
  \/ Read
  \/ ScanRead
  \/ ScanReadEnd
  \/ ScanLine
  \/ ScanEnd
  \/ WriteReturn
  \/ ConsumerRead
  \/ ConsumerEnd
  \/ Abandon

Spec == Init /\ [][Next]_vars

\* A request (New without options) whose input may hold a line of
\* MaxScanTokenSize bytes or more.
NextLong ==
  \/ Exec
  \/ Read
  \/ ScanRead
  \/ ScanReadLong
  \/ ScanTooLong
  \/ ScanReadEnd
  \/ ScanLine
  \/ ScanEnd
  \/ WriteReturn
  \/ ConsumerRead
  \/ ConsumerEnd
  \/ Abandon

SpecLong == Init /\ [][NextLong]_vars

\* A Grep value run twice, one run after the other.
NextTwice == Next \/ ExecAgain

SpecTwice == Init /\ [][NextTwice]_vars

\* The requests that exercise the word-regexp filter: New with
\* WithRegexps, WithIgnoreCase and WithWordRegexp only, run once and read
\* to the end.
NextWord ==
  \/ NewWithWordRegexps
  \/ NewWithIgnoreCase
  \/ NewWithWordRegexp
  \/ Exec
  \/ Read
  \/ ScanRead
  \/ ScanReadEnd
  \/ ScanLine
  \/ ScanEnd
  \/ WriteReturn
  \/ ConsumerRead
  \/ ConsumerEnd

SpecWord == Init /\ [][NextWord]_vars

\* The requests that exercise the splitting of pattern strings on
\* newlines: New with WithRegexps and WithInvertMatch only, run once and
\* read to the end.
NextSplit ==
  \/ NewWithSplitRegexps
  \/ NewWithInvertMatch
  \/ Exec
  \/ Read
  \/ ScanRead
  \/ ScanReadEnd
  \/ ScanLine
  \/ ScanEnd
  \/ WriteReturn
  \/ ConsumerRead
  \/ ConsumerEnd

SpecSplit == Init /\ [][NextSplit]_vars

(***************************************************************************)
(* Pipe (part_006 over Cmd.Exec, part_007 over Reader.Read): a goroutine   *)
(* calls each command on the output of the one before it, then copies the  *)
(* last output into Pipe's own io.Pipe, which the caller reads.            *)
(***************************************************************************)
\* The patterns of the Grep values handed to Pipe; the last does not compile.
StagePatterns == { <<"a">>, <<" ">>, <<"(">> }

\* grep.New(p) of part_000; New of part_008 takes no pattern, so there the
\* Grep value is grep.New(grep.WithRegexps(p)).
NewGrep(im, p) ==
  IF im = "Exec" THEN [pattern |-> p, opts |-> ZeroOptions]
  ELSE [pattern |-> <<>>, opts |-> WithRegexps(ZeroOptions, p)]

\* The lines of Pipe's input that end with a newline; the first one ends
\* with two carriage returns and a newline.
PipeLinePool == { <<"a", CR, CR>>, <<" ", "a">> }

\* The last lines of Pipe's input that end without a newline.
PipeTailPool == { <<"a">> }

\* The sequences over S of at most n elements.
SeqsUpTo(S, n) == UNION {[1..k -> S] : k \in 0..n}

\* The variables of a single request, which Pipe's steps leave alone.
singleVars == <<grepVars, fileOff, ms, pc, scanVars, pipeVars, consVars, resVars, runVars>>

\* Pipe(in, cmds...) has been called with up to MaxStages Grep values.
InitPipe ==
  /\ impl \in {"Exec", "Read"}
  /\ pattern = <<>>
  /\ opts = ZeroOptions
  /\ applied = {}
  /\ fileOff = [file \in Files |-> 0]
  /\ ms = <<>>
  /\ pc = "new"
  /\ inData = <<>>
  /\ inEnd = nil
  /\ sbuf = <<>>
  /\ sErr = nil
  /\ line = <<>>
  /\ wdata = <<>>
  /\ werr = nil
  /\ cstate = "reading"
  /\ got = <<>>
  /\ cerr = <<>>
  /\ closed = {}
  /\ run = 1
  /\ prev = [inData |-> <<>>, inEnd |-> nil, got |-> <<>>, cerr |-> <<>>]
  /\ cmds \in SeqsUpTo({NewGrep(impl, p) : p \in StagePatterns}, MaxStages)
  /\ PipeNotStarted

\* len(cmds).
NumCmds == Len(cmds)

\* One iteration of `for _, cmd := range cmds { in = cmd.Exec(in) }`: the
\* command makes its pipe, compiles its patterns, and either closes the pipe
\* with the compile error or starts its producer goroutine.
PipeExec ==
  /\ ppc = "loop"
  /\ Len(stage) < NumCmds
  /\ LET g == cmds[Len(stage) + 1]
         res == compileAll(impl, g.pattern, g.opts, fileOff)
     IN  stage' = Append(stage,
                    [pc |-> IF res.err # nil THEN "failed" ELSE "scan",
                     ms |-> IF res.err # nil THEN <<>> ELSE res.ms,
                     sbuf |-> <<>>,
                     sErr |-> nil,
                     wdata |-> <<>>,
                     werr |-> IF res.err # nil THEN CloseWithError(res.err) ELSE nil])
  /\ UNCHANGED <<cmds, srcData, srcEnd, ppc, pout, sink, singleVars>>

\* What the Scan of a stage can return with the bytes it holds.
StageToken(st) == ScanLines(st.sbuf, st.sErr # nil)

\* Reader r is stage r for r <= len(cmds), and io.Copy of Pipe's goroutine
\* for r = len(cmds) + 1; it reads the input of Pipe for r = 1 and the pipe
\* of stage r - 1 otherwise.  The reader is at a Read of its input:
WantsRead(r) ==
  IF r <= NumCmds
  THEN /\ r <= Len(stage)
       /\ stage[r].pc = "scan"
       /\ stage[r].sErr = nil
       /\ ~StageToken(stage[r]).has
  ELSE /\ ppc = "loop"
       /\ Len(stage) = NumCmds

\* The stages once reader r has taken every byte of the Write in progress
\* on the pipe it reads.
Taken(r) == IF r > 1 THEN [stage EXCEPT ![r - 1].wdata = <<>>] ELSE stage

\* The Read of reader r returns data: a stage's scanner buffers it; io.Copy
\* writes it to Pipe's pipe, and that Write blocks.
Deliver(r, data) ==
  IF r <= NumCmds
  THEN /\ stage' = [Taken(r) EXCEPT ![r].sbuf = @ \o data]
       /\ UNCHANGED <<ppc, pout>>
  ELSE /\ stage' = Taken(r)
       /\ ppc' = "write"
       /\ pout' = [pout EXCEPT !.wdata = data]

\* Mutant: io.Copy reports no error at all.
CopyErr_Swallowed(e) == nil

\* The error io.Copy returns when its source's Read returned e: none for
\* io.EOF.
CopyErr(e) == IF e = EOF THEN nil ELSE e

\* if err == io.EOF { w.Close(); return }; w.CloseWithError(err)
PipeClose(err) == IF err = EOF THEN CloseWithError(nil) ELSE CloseWithError(err)

\* The Read of reader r returns the terminal condition e: a stage's scanner
\* records it; io.Copy returns and Pipe's goroutine closes Pipe's pipe.
DeliverErr(r, e) ==
  IF r <= NumCmds
  THEN /\ stage' = [stage EXCEPT ![r].sErr = e]
       /\ UNCHANGED <<ppc, pout>>
  ELSE /\ stage' = stage
       /\ ppc' = "done"
       /\ pout' = [pout EXCEPT !.werr = PipeClose(CopyErr(e))]

\* The answers of Pipe's input to one Read: a line with or without its
\* newline; nothing follows a line that has no newline.
PipeChunks ==
  IF NumLines(srcData) >= MaxLines \/ (srcData # <<>> /\ srcData[Len(srcData)] # NL)
  THEN {}
  ELSE {l \o <<NL>> : l \in PipeLinePool} \cup PipeTailPool

\* The first reader reads the input of Pipe: data arrives.
PipeSrcRead ==
  /\ WantsRead(1)
  /\ \E chunk \in PipeChunks :
        /\ srcData' = srcData \o chunk
        /\ Deliver(1, chunk)
  /\ UNCHANGED <<cmds, srcEnd, sink, singleVars>>

\* The first reader reads the input of Pipe: the input ends, with io.EOF or
\* with an error.
PipeSrcEnd ==
  /\ WantsRead(1)
  /\ \E e \in {EOF} \cup InputErrors :
        /\ srcEnd' = e
        /\ DeliverErr(1, e)
  /\ UNCHANGED <<cmds, srcData, sink, singleVars>>

\* A later reader reads the pipe of the stage before it while a Write is in
\* progress there: it takes the bytes (they fit its buffer).
PipeRead ==
  /\ \E r \in 2..(NumCmds + 1) :
        /\ WantsRead(r)
        /\ stage[r - 1].wdata # <<>>
        /\ Deliver(r, stage[r - 1].wdata)
  /\ UNCHANGED <<cmds, srcData, srcEnd, sink, singleVars>>

\* A later reader reads the pipe of the stage before it once its write side
\* is closed: the terminal condition.
PipeReadEnd ==
  /\ \E r \in 2..(NumCmds + 1) :
        /\ WantsRead(r)
        /\ stage[r - 1].wdata = <<>>
        /\ stage[r - 1].werr # nil
        /\ DeliverErr(r, stage[r - 1].werr)
  /\ UNCHANGED <<cmds, srcData, srcEnd, sink, singleVars>>

\* s.Scan() of a stage returns true with the next line; the stage's
\* matchers decide whether it is written: its Write then blocks.
PipeStageLine ==
  /\ \E k \in 1..Len(stage) :
        LET tok == StageToken(stage[k])
            r == Selected(impl, stage[k].ms, cmds[k].opts, tok.tok)
        IN  /\ stage[k].pc = "scan"
            /\ tok.has
            /\ stage' = [stage EXCEPT
                           ![k].sbuf = Drop(@, tok.adv),
                           ![k].wdata = IF r = "true" THEN tok.tok \o <<NL>> ELSE @,
                           ![k].pc = IF r = "true" THEN "write"
                                     ELSE IF r = "false" THEN "scan" ELSE "panic"]
  /\ UNCHANGED <<cmds, srcData, srcEnd, ppc, pout, sink, singleVars>>

\* Mutant: a stage's goroutine ends without closing its pipe.
PipeStageEnd_NoClose ==
  /\ \E k \in 1..Len(stage) :
        /\ stage[k].pc = "scan"
        /\ stage[k].sErr # nil
        /\ ~StageToken(stage[k]).has
        /\ stage' = [stage EXCEPT ![k].pc = "done"]
  /\ UNCHANGED <<cmds, srcData, srcEnd, ppc, pout, sink, singleVars>>

\* s.Scan() of a stage returns false; w.CloseWithError(s.Err()) ends the
\* stage's goroutine.
PipeStageEnd ==
  /\ \E k \in 1..Len(stage) :
        /\ stage[k].pc = "scan"
        /\ stage[k].sErr # nil
        /\ ~StageToken(stage[k]).has
        /\ stage' = [stage EXCEPT ![k].pc = "done",
                                  ![k].werr = CloseWithError(Err(stage[k].sErr))]
  /\ UNCHANGED <<cmds, srcData, srcEnd, ppc, pout, sink, singleVars>>

\* The Write of a stage returns once its reader has taken every byte.
PipeStageWriteReturn ==
  /\ \E k \in 1..Len(stage) :
        /\ stage[k].pc = "write"
        /\ stage[k].wdata = <<>>
        /\ stage' = [stage EXCEPT ![k].pc = "scan"]
  /\ UNCHANGED <<cmds, srcData, srcEnd, ppc, pout, sink, singleVars>>

\* The Write of io.Copy returns once the consumer has taken every byte;
\* io.Copy goes on to its next Read.
PipeWriteReturn ==
  /\ ppc = "write"
  /\ pout.wdata = <<>>
  /\ ppc' = "loop"
  /\ UNCHANGED <<cmds, srcData, srcEnd, stage, pout, sink, singleVars>>

\* The consumer's Read(p) with len(p) = n while io.Copy's Write is in progress.
SinkRead ==
  /\ sink.state = "reading"
  /\ pout.wdata # <<>>
  /\ \E n \in ReadSizes :
        /\ sink' = [sink EXCEPT !.got = @ \o Take(pout.wdata, Min(n, Len(pout.wdata)))]
        /\ pout' = [pout EXCEPT !.wdata = Drop(@, Min(n, Len(pout.wdata)))]
  /\ UNCHANGED <<cmds, srcData, srcEnd, stage, ppc, singleVars>>

\* The consumer's Read(p) once Pipe's pipe is closed: the terminal condition.
SinkEnd ==
  /\ sink.state = "reading"
  /\ pout.wdata = <<>>
  /\ pout.werr # nil
  /\ sink' = [sink EXCEPT !.state = "ended", !.cerr = Append(@, pout.werr)]
  /\ UNCHANGED <<cmds, srcData, srcEnd, stage, ppc, pout, singleVars>>

NextPipe ==
  \/ SinkEnd
  \/ SinkRead
  \/ PipeWriteReturn
  \/ PipeStageWriteReturn
  \/ PipeSrcEnd
  \/ PipeReadEnd
  \/ PipeStageEnd
  \/ PipeSrcRead
  \/ PipeRead
  \/ PipeStageLine
  \/ PipeExec

SpecPipe == InitPipe /\ [][NextPipe]_vars

\* Every goroutine that can run does run, a Read of the input of Pipe
\* returns, and the consumer keeps reading.
FairSpecPipe == SpecPipe /\ WF_vars(NextPipe)

(***************************************************************************)
(* Vocabulary of the properties.                                           *)
(***************************************************************************)
\* The request has run to its end and the consumer has read the whole
\* output stream, terminal condition included.
Finished == pc = "done" /\ cstate = "ended"

\* The input lines: the tokens of the line scanner over the bytes the
\* input delivered (a line ending, "\n" or "\r\n", is not part of a line).
InputLines == ScanAll(inData)

\* The output stream that consists of the lines among lns that satisfy
\* Keep, in order, each followed by one newline.
LinesOut(lns, Keep(_)) ==
  LET sel == SelectSeq(lns, Keep)
  IN  Concat([k \in 1..Len(sel) |-> sel[k] \o <<NL>>])

\* Some pattern's boundary-filtered match succeeds on the line.
SomePatternMatches(ln) == \E k \in 1..Len(ms) : match(ms[k], opts, ln) = "true"

SelectedUninverted(ln) == Selected(impl, ms, [opts EXCEPT !.v = FALSE], ln) = "true"

NotSelectedUninverted(ln) == ~SelectedUninverted(ln)

\* C2: invert-match is a pure complement, line for line: the lines output
\* with invert-match set are exactly the input lines that are not output
\* with invert-match unset, in input order.
C2_InvertIsComplement ==
  (Finished /\ opts.v) => got = LinesOut(InputLines, NotSelectedUninverted)

\* The line contains a match of the expression (any alternative, at any
\* offset) that begins at the beginning of the line or after a non-word
\* character and ends at the end of the line or before a non-word character.
WholeWordMatch(re, ln) ==
  \E b \in 0..Len(ln) : \E j \in 1..Len(re.alts) :
     LET e == b + Len(re.alts[j])
     IN  /\ MatchesAt(re, re.alts[j], ln, b)
         /\ (b = 0 \/ ~IsWordChar(ln[b]))
         /\ (e = Len(ln) \/ ~IsWordChar(ln[e + 1]))

SomeWholeWordMatch(ln) == \E k \in 1..Len(ms) : WholeWordMatch(ms[k].regexp, ln)

\* C3: with word-regexp set and line-regexp unset, a line is selected if and
\* only if it contains a match of a pattern that is at the beginning of the
\* line or preceded by a non-word character, and at the end of the line or
\* followed by a non-word character, wherever in the line the match lies.
C3_WordRegexpSelectsWholeWords ==
  (Finished /\ opts.w /\ ~opts.x /\ ~opts.v /\ Len(ms) > 0)
    => got = LinesOut(InputLines, SomeWholeWordMatch)

\* The expression, parenthesized and anchored at both ends, matches the line.
AnchoredMatch(re, ln) ==
  \E j \in 1..Len(re.alts) :
     MatchesAt(re, re.alts[j], ln, 0) /\ Len(re.alts[j]) = Len(ln)

SomeAnchoredMatch(ln) == \E k \in 1..Len(ms) : AnchoredMatch(ms[k].regexp, ln)

\* C4: with line-regexp set, the result of a pattern on a line equals the
\* result of requiring the pattern, parenthesized and anchored at both ends,
\* to match the whole line.
C4_LineRegexpIsAnchoredMatch ==
  (Finished /\ opts.x /\ ~opts.v /\ Len(ms) > 0)
    => got = LinesOut(InputLines, SomeAnchoredMatch)

\* C5: whatever options New has applied, in whatever order, word-regexp and
\* line-regexp are never both set, and once WithLineRegexp has been applied
\* line-regexp is set and word-regexp is clear.
C5_WordAndLineExclusive ==
  /\ ~(opts.w /\ opts.x)
  /\ "x" \in applied => (opts.x /\ ~opts.w)
  /\ ("w" \in applied /\ "x" \notin applied) => (opts.w /\ ~opts.x)

\* C5 witness: New has applied both WithWordRegexp and WithLineRegexp (in
\* either order) and the request has started.
C5_Witness ==
  /\ {"w", "x"} \subseteq applied
  /\ opts.x
  /\ ~opts.w
  /\ pc = "scan"

\* The expression matches somewhere in the line, and folds case if and
\* only if ignore-case is set.
GatedMatch(re, ln) == reMatch([re EXCEPT !.fold = opts.i], ln)

SomeGatedMatch(ln) == \E k \in 1..Len(ms) : GatedMatch(ms[k].regexp, ln)

\* C6: case folding is gated on ignore-case: (with no boundary refinement
\* and no inversion) the lines selected are those a pattern matches with
\* case folded when ignore-case is set, and those a pattern matches
\* case-sensitively when it is unset, so a line that differs from a matching
\* line only in letter case is selected if and only if ignore-case is set.
C6_CaseFoldingGatedOnIgnoreCase ==
  (Finished /\ ~opts.v /\ ~opts.w /\ ~opts.x /\ Len(ms) > 0)
    => got = LinesOut(InputLines, SomeGatedMatch)

\* Every line.
AnyLine(ln) == TRUE

\* All pattern sources are empty: an empty inline pattern, no explicit
\* pattern string, no pattern file or only empty ones.
AllSourcesEmpty ==
  /\ pattern = <<>>
  /\ Len(opts.e) = 0
  /\ \A k \in 1..Len(opts.f) : FileData[opts.f[k]] = <<>>

NoPatternInUse ==
  /\ Len(opts.e) = 0
  /\ Len(opts.f) > 0
  /\ \A k \in 1..Len(opts.f) : FileData[opts.f[k]] = <<>>

PatternsInUse ==
  LET inl == IF Len(opts.e) = 0 /\ Len(opts.f) = 0 THEN Split(pattern, NL) ELSE <<>>
      exps == Concat([k \in 1..Len(opts.e) |-> Split(opts.e[k], NL)])
      fls == Concat([k \in 1..Len(opts.f) |-> ScanAll(FileData[opts.f[k]])])
  IN  inl \o exps \o fls

\* The pattern does not compile.
Bad(p) == \E k \in 1..Len(p) : p[k] = "("

BadPatternInUse == \E k \in 1..Len(PatternsInUse) : Bad(PatternsInUse[k])

FirstBadPattern ==
  PatternsInUse[CHOOSE k \in 1..Len(PatternsInUse) :
                   /\ Bad(PatternsInUse[k])
                   /\ \A j \in 1..(k - 1) : ~Bad(PatternsInUse[j])]

\* C8: if the pattern set contains a pattern that does not compile, wherever
\* it stands and whichever source it came from, the stream that Exec / Read
\* returns delivers no byte, its first read reports the compile error, and
\* no byte of the input stream is ever read.
C8_CompileErrorNoOutputNoInput ==
  (pc # "new" /\ BadPatternInUse)
    => /\ pc = "failed"
       /\ werr = <<"missing closing )", FirstBadPattern>>
       /\ wdata = <<>>
       /\ got = <<>>
       /\ inData = <<>>
       /\ inEnd = nil
       /\ cstate = "ended" => cerr = <<werr>>

\* C8 witness: the bad pattern is the second line of a pattern file that
\* follows a good explicit pattern, and the consumer has read the error.
C8_Witness ==
  /\ pc = "failed"
  /\ opts.e = << <<"a">> >>
  /\ opts.f = <<3>>
  /\ cstate = "ended"
  /\ cerr = << <<"missing closing )", <<"(">> >> >>

\* The producer writes the line.
SelectedByProducer(ln) == Selected(impl, ms, opts, ln) = "true"

ProducerNext == ScanRead \/ ScanReadEnd \/ ScanLine \/ ScanEnd \/ WriteReturn

\* C10: once the consumer has stopped reading, the producer goroutine is
\* not left blocked in a pipe write: it has terminated or it can take a
\* step (and so goes on to terminate).
C10_ProducerNotBlockedAfterAbandon ==
  cstate = "abandoned" => (pc \in {"done", "failed"} \/ ENABLED ProducerNext)

\* The request has ended: the producer has terminated (or was never started,
\* compilation having failed) and the consumer has seen the terminal
\* condition or has abandoned the stream.
RequestEnded == pc \in {"done", "failed"} /\ cstate \in {"ended", "abandoned"}

\* The handles the request holds: its input and the pattern files handed
\* to it.
HeldHandles == {InputHandle} \cup {FileHandle(opts.f[k]) : k \in 1..Len(opts.f)}

\* C11: on every exit path (input exhausted, input read error, compile
\* failure, consumer abandonment), once the request has ended every pattern
\* file handed to it and its input handle have been closed.
C11_ResourcesReleased == RequestEnded => HeldHandles \subseteq closed

\* The second run of the Grep value is over and its output has been read
\* to the end.
SecondRunOver == run = 2 /\ pc \in {"done", "failed"} /\ cstate = "ended"

\* C12: idempotence: a second run of the same Grep value (same patterns,
\* pattern files included, same options) on an input of identical content
\* yields the same output bytes and the same terminal condition as the first.
C12_SecondRunIdentical ==
  SecondRunOver => (got = prev.got /\ cerr = prev.cerr)

\* The stream a single request of Grep value g yields when it is fed the
\* stream in = [data, end] (as C8 and C9 establish it): nothing and the
\* compile error, or the selected lines and the terminal condition of in.
StageOutput(g, in) ==
  LET res == compileAll(impl, g.pattern, g.opts, [file \in Files |-> 0])
      Sel(ln) == Selected(impl, res.ms, g.opts, ln) = "true"
  IN  IF res.err # nil
      THEN [data |-> <<>>, end |-> CloseWithError(res.err)]
      ELSE [data |-> LinesOut(ScanAll(in.data), Sel), end |-> CloseWithError(Err(in.end))]

\* The input of Pipe fed to the first command, its output to the second,
\* and so on to command k.
RECURSIVE Fed(_)
Fed(k) ==
  IF k = 0 THEN [data |-> srcData, end |-> srcEnd]
  ELSE StageOutput(cmds[k], Fed(k - 1))

\* Pipe's goroutine has closed Pipe's pipe and the consumer has read the
\* output to the end.
PipeFinished == ppc = "done" /\ sink.state = "ended"

\* The patterns of every command compile.
PipeAllCompile ==
  \A k \in 1..NumCmds :
     compileAll(impl, cmds[k].pattern, cmds[k].opts, [file \in Files |-> 0]).err = nil

\* The composite matcher of every command selects the line.
EveryStageSelects(ln) ==
  \A k \in 1..NumCmds :
     LET res == compileAll(impl, cmds[k].pattern, cmds[k].opts, [file \in Files |-> 0])
     IN  Selected(impl, res.ms, cmds[k].opts, ln) = "true"

\* The output of Pipe is that of feeding the input through the commands
\* one after the other, in bytes and in terminal condition.
PipeIsFeeding ==
  /\ sink.got = Fed(NumCmds).data
  /\ sink.cerr = <<Fed(NumCmds).end>>

\* The output of Pipe is the input lines that every command selects, in
\* input order, each followed by a newline; the input itself with no command.
PipeOutputIsSelectedInputLines ==
  sink.got = (IF NumCmds = 0 THEN srcData
              ELSE LinesOut(ScanAll(srcData), EveryStageSelects))

NoLineEndsWithCR ==
  \A k \in 1..Len(ScanAll(srcData)) :
     LET ln == ScanAll(srcData)[k] IN Len(ln) = 0 \/ ln[Len(ln)] # CR

Consumed == Take(inData, Len(inData) - Len(sbuf))

EvaluatedLines == ScanAll(Consumed)

\* s is the end of t.
IsSuffix(s, t) == Len(s) <= Len(t) /\ s = Drop(t, Len(t) - Len(s))

\* C14: backpressure: while bytes of a selected line are undelivered the
\* producer is suspended in its write of that line and cannot evaluate the
\* next line; the line being written is the last line evaluated, it is
\* selected, and the bytes delivered and in flight end with that line, so at
\* most one selected line is in flight; and the consumer cannot proceed
\* while no output and no terminal condition is available.
C14_Backpressure ==
  /\ wdata # <<>> => /\ pc = "write"
                     /\ IsSuffix(wdata, line \o <<NL>>)
                     /\ ~ENABLED ScanLine
                     /\ ~ENABLED WriteReturn
  /\ pc = "write" => /\ SelectedByProducer(line)
                     /\ IsSuffix(line \o <<NL>>, got \o wdata)
  /\ (cstate = "reading" /\ wdata = <<>> /\ werr = nil)
       => ~ENABLED (ConsumerRead \/ ConsumerEnd)

\* C14 witness: the consumer has taken the two bytes of the selected line
\* "aa" and not yet its newline; the producer is suspended in its write.
C14_Witness ==
  /\ pc = "write"
  /\ cstate = "reading"
  /\ line = <<"a", "a">>
  /\ got = <<"a", "a">>
  /\ wdata = <<NL>>

\* The pattern texts of the compiled matchers, in order.
CompiledPatterns == [k \in 1..Len(ms) |-> Join(ms[k].regexp.alts, "|")]

\* The elements of a sequence.
Range(sq) == {sq[k] : k \in 1..Len(sq)}

\* The lines of the pattern files fs in the order given; a file handle that
\* is given more than once yields its lines where it is first given.
RECURSIVE FileLines(_, _)
FileLines(fs, seen) ==
  IF Len(fs) = 0 THEN <<>>
  ELSE (IF fs[1] \in seen THEN <<>> ELSE ScanAll(FileData[fs[1]]))
         \o FileLines(Tail(fs), seen \cup {fs[1]})

\* The explicit pattern strings split on newlines, in the order given.
ExplicitPatterns == Concat([k \in 1..Len(opts.e) |-> Split(opts.e[k], NL)])

\* C15: the inline pattern contributes patterns if and only if no explicit
\* pattern string and no pattern file was supplied (it is ignored also when
\* every supplied pattern file is empty); the patterns compiled are then the
\* pieces of the inline pattern, and otherwise the explicit pattern strings
\* split on newlines, in the order given, followed by the lines of the
\* pattern files in the order given.
C15_InlineIgnoredWithOtherSources ==
  pc \in {"scan", "write", "done"}
    => /\ Range(CompiledPatterns) = Range(PatternsInUse)
       /\ (Len(opts.e) = 0 /\ Len(opts.f) = 0) => CompiledPatterns = Split(pattern, NL)
       /\ (Len(opts.e) > 0 \/ Len(opts.f) > 0)
            => CompiledPatterns = ExplicitPatterns \o FileLines(opts.f, {})

\* C15 witness: the inline pattern "a" is given together with one pattern
\* file, which is empty: no pattern is compiled and the input line "a" is
\* not selected.
C15_Witness ==
  /\ Finished
  /\ pattern = <<"a">>
  /\ opts.e = <<>>
  /\ opts.f = <<1>>
  /\ ms = <<>>
  /\ inData = <<"a">>
  /\ got = <<>>

\* C16: there is no limit on the length of an input line: whatever the
\* lengths of the lines read, the output ends with the terminal condition of
\* the input and with nothing else, and it holds every selected line among
\* all the lines of the input, each whole.
C16_NoLineLengthLimit ==
  /\ pc = "done" => werr = CloseWithError(Err(inEnd))
  /\ Finished => got = LinesOut(InputLines, SelectedByProducer)

\* The span sp = <<begin, end>> of the line is a whole-word match: (a) it
\* covers the entire line, or (b) it starts at offset 0 and the byte after
\* its end is not a word constituent, or (c) it ends at the line's end and
\* the byte before its start is not a word constituent.
Qualifies(ln, sp) ==
  \/ (sp[1] = 0 /\ sp[2] = Len(ln))
  \/ (sp[1] = 0 /\ sp[2] < Len(ln) /\ ~IsWordChar(ln[sp[2] + 1]))
  \/ (sp[2] = Len(ln) /\ sp[1] > 0 /\ ~IsWordChar(ln[sp[1]]))

\* Some span among all the non-overlapping match spans of the expression
\* in the line qualifies.
SomeSpanQualifies(re, ln) ==
  LET spans == FindAllIndex(re, ln)
  IN  \E j \in 1..Len(spans) : Qualifies(ln, spans[j])

C19_WordCheckInRange ==
  /\ pc # "panic"
  /\ (opts.w /\ ~opts.x) =>
       \A k \in 1..Len(ms) :
          LET spans == FindAllIndex(ms[k].regexp, line)
          IN  /\ \A j \in 1..Len(spans) :
                   wordCase(line, spans[j][1], spans[j][2]) # "panic"
              /\ match(ms[k], opts, line) # "panic"

\* C19 witness: the empty pattern under word-regexp has been evaluated on
\* the empty line (the empty span at offset 0 of a line of length 0) and on
\* the line "aa" (empty spans at offsets 0, 1 and 2, none of which
\* qualifies), and the stream has ended.
C19_Witness ==
  /\ Finished
  /\ opts.w /\ ~opts.x
  /\ Len(ms) = 1
  /\ EvaluatedLines = << <<>>, <<"a", "a">> >>
  /\ FindAllIndex(ms[1].regexp, <<>>) = << <<0, 0>> >>
  /\ FindAllIndex(ms[1].regexp, <<"a", "a">>) = << <<0, 0>>, <<1, 1>>, <<2, 2>> >>

\* Every stage's producer goroutine has ended, Pipe's copying goroutine has
\* ended, and the consumer has seen the terminal condition.
PipeAllTerminated ==
  /\ Len(stage) = NumCmds
  /\ \A k \in 1..NumCmds : stage[k].pc = "done"
  /\ ppc = "done"
  /\ sink.state = "ended"

\* C18: no deadlock on full consumption: for any finite input and any
\* number of stages whose patterns all compile, when the consumer of Pipe's
\* output keeps reading until the terminal condition, every stage's
\* goroutine and Pipe's copying goroutine eventually end and the consumer
\* eventually sees the end of the stream.
C18_NoDeadlockOnFullConsumption == PipeAllCompile => <>PipeAllTerminated

\* C18 witness: two stages whose patterns compile have ended, after the
\* second one wrote a line that the consumer received, and so have the
\* copying goroutine and the consumer.
C18_Witness ==
  /\ NumCmds = 2
  /\ PipeAllCompile
  /\ PipeAllTerminated
  /\ srcEnd = EOF
  /\ sink.got # <<>>
  /\ sink.cerr = <<EOF>>

\* The pattern source strings that are split on newlines: the inline
\* pattern when it is in use, and the explicit pattern strings.
SourcesInUse ==
  IF Len(opts.e) = 0 /\ Len(opts.f) = 0 THEN <<pattern>> ELSE opts.e

\* The string is empty, ends with a newline or contains two consecutive
\* newlines.
HasEmptyPiece(src) ==
  IF src = <<>> THEN TRUE
  ELSE \/ src[Len(src)] = NL
       \/ \E i \in 1..(Len(src) - 1) : src[i] = NL /\ src[i + 1] = NL

\* C20: splitting a pattern source on newlines keeps empty pieces: when a
\* pattern source in use is empty, ends with a newline or contains two
\* consecutive newlines, the pattern set contains the empty pattern, and
\* then, with word-regexp and line-regexp unset, every input line is
\* selected when invert-match is unset and no line is selected when
\* invert-match is set, whatever the other patterns are.
C20_EmptyPieceSelectsAllOrNothing ==
  (Finished /\ \E k \in 1..Len(SourcesInUse) : HasEmptyPiece(SourcesInUse[k]))
    => /\ <<>> \in Range(CompiledPatterns)
       /\ (~opts.w /\ ~opts.x)
            => got = (IF opts.v THEN <<>> ELSE LinesOut(InputLines, AnyLine))

====
